---- MODULE Spec2Model ----
(***************************************************************************)
(* Multi-network Safe deployment orchestrator (SafeService / SafeController *)
(* / Safe model).  One process, cooperative scheduling: every action below  *)
(* is the code that runs between two suspension points (awaits) of one      *)
(* request handler or of one deployment attempt.                            *)
(***************************************************************************)
EXTENDS Integers, Sequences, FiniteSets, TLC

\* ---------------------------------------------------------------- bounds
MaxVaults == 1      \* vault records ever created
MaxCalls  == 2      \* request handlers running at the same time
MaxOps    == 3      \* requests ever started
MaxLoad   == 2      \* networks named by the requests running at the same time
MaxResults == 4     \* entries of a result record handed to getCommonAddress
MaxAddress == 2     \* distinct addresses in such a record

\* ------------------------------------------------------ network registry
\* Own keys of the NETWORKS object (three representatives of its eight).
NETWORKS == {"sepolia", "arbitrum_sepolia", "base_sepolia"}

\* Keys every object literal inherits from Object.prototype (one
\* representative); NETWORKS[k] is a function object for them, hence truthy.
ObjectPrototype == {"constructor"}

\* The enum of SafeDeploymentSchema.networkKey: base_sepolia is missing.
SchemaNetworkKeys == {"sepolia", "arbitrum_sepolia"}

\* Network keys a request can name: registered ones, an inherited property
\* name and a key that is nowhere.
Keys == NETWORKS \cup ObjectPrototype \cup {"bogus"}

\* `networkKey in NETWORKS`: the in operator follows the prototype chain.
isNetworkSupported(networkKey) == networkKey \in NETWORKS \cup ObjectPrototype

\* getNetwork throws when NETWORKS[networkKey] is falsy.
getNetworkThrows(networkKey) == networkKey \notin NETWORKS \cup ObjectPrototype

\* getNetwork(networkKey).chainId; 0 stands for undefined.
chainIdOf(networkKey) ==
  CASE networkKey = "sepolia"          -> 11155111
    [] networkKey = "arbitrum_sepolia" -> 421614
    [] networkKey = "base_sepolia"     -> 84532
    [] OTHER                           -> 0

\* The RPC endpoint of the network is defined (own keys only).
hasRpc(networkKey) == networkKey \in NETWORKS

\* ------------------------------------------------------------ data model
Statuses == {"initializing", "active", "suspended", "archived"}

\* safeConfig built by deploySafesForUser: owners = [user, agent],
\* threshold = 1, a fresh saltNonce (one per vault; the vault number).
NewConfig(n) == [owners |-> <<"user", "agent">>, threshold |-> 1, saltNonce |-> n]

\* protocolKit.getAddress(): CREATE2 over the hard-coded factory/singleton
\* addresses, the owners, the threshold and the salt nonce.  The chain does
\* not enter.  Addresses are numbered by salt; 0 is the empty address "".
predictAddress(config, networkKey) == config.saltNonce

\* new SafeModel({...}) with the schema defaults; version is the document
\* version (__v) the insert stores.
NewRecord(config) ==
  [status |-> "initializing", config |-> config,
   deployments |-> <<>>, totalDeployments |-> 0, version |-> 0]

\* this.deployments.get(k)?.… : a Map from network key to sub-document.
HasDep(deps, k) == k \in DOMAIN deps

isDeployedAlways(doc, networkKey) == TRUE

isDeployedNever(doc, networkKey) == FALSE

\* this.deployments.get(networkKey): deployed and active.
isDeployedOnNetwork(doc, networkKey) ==
  /\ HasDep(doc.deployments, networkKey)
  /\ doc.deployments[networkKey].deploymentStatus = "deployed"
  /\ doc.deployments[networkKey].isActive = TRUE

\* The sub-document addDeployment stores for a result.
DeploymentEntry(networkKey, result) ==
  [networkKey |-> networkKey, chainId |-> result.chainId,
   address |-> result.address, deploymentStatus |-> result.deploymentStatus,
   isActive |-> TRUE]

\* SafeDeploymentSchema validation of one sub-document.
ValidEntry(e) ==
  /\ e.networkKey \in SchemaNetworkKeys
  /\ e.chainId # 0
  /\ e.address # 0
  /\ e.deploymentStatus \in {"pending", "deployed", "failed"}

\* An in-memory document: the loaded record and the paths modified since
\* (dArray: metadata.activeNetworks, an array path).
Loaded(rec) ==
  [rec |-> rec, dStatus |-> FALSE, dMeta |-> FALSE, dDeps |-> {}, dArray |-> FALSE]

\* addDeployment before its save: set the map entry, recompute the counts
\* and assign the array of the map's keys (modified when the key is new).
addDeploymentDoc(doc, networkKey, result) ==
  LET deps == (networkKey :> DeploymentEntry(networkKey, result)) @@ doc.rec.deployments
  IN [doc EXCEPT !.rec.deployments = deps,
                 !.rec.totalDeployments = Cardinality(DOMAIN deps),
                 !.dMeta = TRUE,
                 !.dDeps = @ \cup {networkKey},
                 !.dArray = @ \/ ~HasDep(doc.rec.deployments, networkKey)]

\* save() validates the document and rejects when a sub-document is invalid.
saveThrows(doc) == \E k \in doc.dDeps : ~ValidEntry(doc.rec.deployments[k])

saveConflictsNever(doc, stored) == FALSE

\* save() of a document whose modified paths include an array set as a
\* whole: the update is sent with the loaded version in its filter and
\* matches nothing when the stored version has moved on (VersionError).
saveConflicts(doc, stored) == doc.dArray /\ stored.version # doc.rec.version

saveWriteWhole(doc, stored) ==
  [doc.rec EXCEPT !.version = IF doc.dArray THEN @ + 1 ELSE @]

\* save() writes the modified paths of the document over the stored record
\* and increments the version when an array was set.
saveWrite(doc, stored) ==
  [stored EXCEPT
     !.status = IF doc.dStatus THEN doc.rec.status ELSE @,
     !.totalDeployments = IF doc.dMeta THEN doc.rec.totalDeployments ELSE @,
     !.deployments = [k \in doc.dDeps |-> doc.rec.deployments[k]] @@ @,
     !.version = IF doc.dArray THEN @ + 1 ELSE @]

\* The document after a successful save.
Saved(doc) ==
  [doc EXCEPT !.dStatus = FALSE, !.dMeta = FALSE, !.dDeps = {}, !.dArray = FALSE,
              !.rec.version = IF doc.dArray THEN @ + 1 ELSE @]

\* ------------------------------------------------------------------ state
VARIABLES
  db,               \* the safes collection: vault id -> <<>> or <<record>>
  chain,            \* {<<networkKey, address>>}: code exists at the address
  deploymentQueue,  \* SafeService.deploymentQueue keys: {<<safeId, networkKey>>}
  calls,            \* running request handlers, by slot
  nvaults,          \* vault ids generated so far
  ops               \* requests started so far

vars == <<db, chain, deploymentQueue, calls, nvaults, ops>>

\* The network lists a request can carry.
Requests ==
  { <<>>,
    <<"sepolia">>, <<"arbitrum_sepolia">>, <<"base_sepolia">>,
    <<"bogus">>, <<"constructor">>,
    <<"sepolia", "arbitrum_sepolia">>, <<"sepolia", "sepolia">>,
    <<"sepolia", "base_sepolia">>, <<"base_sepolia", "sepolia">>,
    <<"sepolia", "bogus">>, <<"bogus", "sepolia">>,
    <<"sepolia", "constructor">> }

\* --------------------------------------------------- deployment attempts
\* One deploySafeOnNetwork invocation.  pc is the await it is suspended on:
\* "balance" (getBalance and everything up to sendTransaction) or "wait"
\* (txResponse.wait and the verification), then "fulfilled" or "rejected".
Rejected(networkKey, err) ==
  [net |-> networkKey, pc |-> "rejected", err |-> err, address |-> 0,
   isExisting |-> FALSE, rpc |-> FALSE, submitted |-> FALSE, receipt |-> FALSE,
   ord |-> 0]

Running(networkKey) ==
  [net |-> networkKey, pc |-> "balance", err |-> "", address |-> 0,
   isExisting |-> FALSE, rpc |-> TRUE, submitted |-> FALSE, receipt |-> FALSE,
   ord |-> 0]

InFlight(a) == a.pc \in {"balance", "wait"}
Settled(a) == a.pc \in {"fulfilled", "rejected"}

\* The rank a promise gets when it settles now: Promise.allSettled sees the
\* promises of att settle in this order.
SettleOrd(att) == Cardinality({j \in DOMAIN att : Settled(att[j])}) + 1

AdmitAlways(safeId, k, queue) == TRUE

\* !this.deploymentQueue.has(cacheKey)
Admit(safeId, k, queue) == <<safeId, k>> \notin queue

RECURSIVE LaunchClearing(_, _, _, _)
LaunchClearing(safeId, nets, queue, acc) ==
  IF nets = <<>> THEN [queue |-> queue, att |-> acc]
  ELSE LET k == Head(nets) IN
    IF ~Admit(safeId, k, queue)
      THEN LaunchClearing(safeId, Tail(nets), queue \ {<<safeId, k>>},
                          Append(acc, [Rejected(k, "Deployment already in progress")
                                         EXCEPT !.ord = SettleOrd(acc)]))
    ELSE IF getNetworkThrows(k)
      THEN LaunchClearing(safeId, Tail(nets), queue,
                          Append(acc, [Rejected(k, "Unsupported network")
                                         EXCEPT !.ord = SettleOrd(acc)]))
    ELSE LaunchClearing(safeId, Tail(nets), queue \cup {<<safeId, k>>},
                        Append(acc, Running(k)))

\* networks.map(k => deploySafeOnNetwork(safeId, k, config)): every
\* invocation runs synchronously up to its first await (getBalance).  The
\* guard throws before the try block; getNetwork throws inside it, so the
\* mark it has just set is deleted again by the finally block.

RECURSIVE Launch(_, _, _, _)
Launch(safeId, nets, queue, acc) ==
  IF nets = <<>> THEN [queue |-> queue, att |-> acc]
  ELSE LET k == Head(nets) IN
    IF ~Admit(safeId, k, queue)
      THEN Launch(safeId, Tail(nets), queue,
                  Append(acc, [Rejected(k, "Deployment already in progress")
                                 EXCEPT !.ord = SettleOrd(acc)]))
    ELSE IF getNetworkThrows(k)
      THEN Launch(safeId, Tail(nets), queue,
                  Append(acc, [Rejected(k, "Unsupported network")
                                 EXCEPT !.ord = SettleOrd(acc)]))
    ELSE Launch(safeId, Tail(nets), queue \cup {<<safeId, k>>},
                Append(acc, Running(k)))

AllSettled(att) == \A i \in DOMAIN att : Settled(att[i])

NewCall(op, safeId, networks, config) ==
  [op |-> op, safeId |-> safeId, networks |-> networks, config |-> config,
   pc |-> "attempts", att |-> <<>>, results |-> <<>>, doc |-> <<>>, i |-> 1,
   has |-> FALSE, common |-> 0, outcome |-> "none", err |-> "", http |-> 0,
   body |-> "", input |-> ""]

\* A free handler slot.
Idle == [NewCall("idle", 0, <<>>, NewConfig(0)) EXCEPT !.pc = "idle"]

Init ==
  /\ db = [v \in 1..MaxVaults |-> <<>>]
  /\ chain = {}
  /\ deploymentQueue = {}
  /\ calls = [c \in 1..MaxCalls |-> Idle]
  /\ nvaults = 0
  /\ ops = 0

\* A handler that has answered leaves before anything else happens: the
\* state in which a call is "done" is the state right after its last step.
NoneDone == \A c \in 1..MaxCalls : calls[c].pc # "done"

RECURSIVE LoadFrom(_)
LoadFrom(c) == IF c > MaxCalls THEN 0 ELSE Len(calls[c].networks) + LoadFrom(c + 1)

CanStart(c, networks) ==
  /\ NoneDone
  /\ calls[c].op = "idle"
  /\ \A d \in 1..(c - 1) : calls[d].op # "idle"
  /\ ops < MaxOps
  /\ networks \in Requests
  /\ LoadFrom(1) + Len(networks) <= MaxLoad

\* The handler has answered: what the service call did (returned / thrown
\* with err) and the status and error label of the HTTP response.
Done(call, outcome, err, http, body) ==
  [call EXCEPT !.pc = "done", !.outcome = outcome, !.err = err,
               !.http = http, !.body = body]

findOneOrNew(safeId) ==
  IF db[safeId] = <<>> THEN <<NewRecord(NewConfig(safeId))>> ELSE db[safeId]

\* SafeModel.findOne({ safeId }): <<>> for null, else <<record>>.
findOne(safeId) == db[safeId]

expandConfigFresh(safe) == NewConfig(0)

\* The configuration expandSafeToNetworks hands to every attempt: safe.config.
expandConfig(safe) == safe.rec.config

\* POST /api/safe/deploy: SafeController.deploySafes -> deploySafesForUser,
\* up to `await safeRecord.save()`: the validation loop, the configuration
\* and the new record.
DeployStart(c, networks) ==
  /\ CanStart(c, networks)
  /\ ops' = ops + 1
  /\ IF \E i \in DOMAIN networks : ~isNetworkSupported(networks[i])
       THEN /\ calls' = [calls EXCEPT ![c] =
                 Done(NewCall("deploy", 0, networks, NewConfig(0)),
                      "thrown", "Unsupported network", 500, "Safe deployment failed")]
            /\ UNCHANGED <<db, nvaults>>
       ELSE /\ nvaults < MaxVaults
            /\ LET safeId == nvaults + 1
                   config == NewConfig(safeId)
               IN /\ nvaults' = safeId
                  /\ db' = [db EXCEPT ![safeId] = <<NewRecord(config)>>]
                  /\ calls' = [calls EXCEPT ![c] =
                       [NewCall("deploy", safeId, networks, config) EXCEPT !.pc = "created"]]
  /\ UNCHANGED <<chain, deploymentQueue>>

\* deploySafesForUser from the saved record to `await Promise.allSettled`:
\* the fan-out.
DeployLaunch(c) ==
  /\ NoneDone
  /\ calls[c].op = "deploy"
  /\ calls[c].pc = "created"
  /\ LET l == Launch(calls[c].safeId, calls[c].networks, deploymentQueue, <<>>)
     IN /\ deploymentQueue' = l.queue
        /\ calls' = [calls EXCEPT ![c].pc = "attempts", ![c].att = l.att]
  /\ UNCHANGED <<db, chain, nvaults, ops>>

\* POST /api/safe/:safeId/expand: SafeController.expandSafe ->
\* expandSafeToNetworks, up to `await Promise.allSettled`.
ExpandStart(c, safeId, networks) ==
  /\ CanStart(c, networks)
  /\ safeId \in 1..MaxVaults
  /\ ops' = ops + 1
  /\ UNCHANGED <<db, chain, nvaults>>
  /\ LET call == NewCall("expand", safeId, networks, NewConfig(0)) IN
     IF Len(networks) = 0
       THEN /\ calls' = [calls EXCEPT ![c] =
                 Done(call, "none", "", 400, "Networks array is required")]
            /\ UNCHANGED deploymentQueue
     ELSE IF findOne(safeId) = <<>>
       THEN /\ calls' = [calls EXCEPT ![c] =
                 Done(call, "thrown", "Safe not found", 404, "Safe not found")]
            /\ UNCHANGED deploymentQueue
     ELSE LET safe == Loaded(findOne(safeId)[1])
              networksToExpand ==
                SelectSeq(networks, LAMBDA k : ~isDeployedOnNetwork(safe.rec, k))
              l == Launch(safeId, networksToExpand, deploymentQueue, <<>>)
          IN IF Len(networksToExpand) = 0
               THEN /\ calls' = [calls EXCEPT ![c] =
                         Done([call EXCEPT !.doc = <<safe>>], "thrown",
                              "Safe already deployed on all specified networks",
                              500, "Safe expansion failed")]
                    /\ UNCHANGED deploymentQueue
               ELSE /\ calls' = [calls EXCEPT ![c] =
                         [call EXCEPT !.config = expandConfig(safe), !.doc = <<safe>>,
                                      !.att = l.att]]
                    /\ deploymentQueue' = l.queue

\* ---- the awaits of deploySafeOnNetwork
AttemptAt(c, i) ==
  /\ NoneDone
  /\ calls[c].op \in {"deploy", "expand"}
  /\ calls[c].pc = "attempts"
  /\ i \in DOMAIN calls[c].att

ReleaseNever(queue, safeId, networkKey) == queue

\* finally { this.deploymentQueue.delete(cacheKey) }
Release(queue, safeId, networkKey) == queue \ {<<safeId, networkKey>>}

\* catch { throw error } finally { ... }
Fail(c, i, err) ==
  /\ calls' = [calls EXCEPT ![c].att[i].pc = "rejected", ![c].att[i].err = err,
                            ![c].att[i].ord = SettleOrd(calls[c].att)]
  /\ deploymentQueue' =
       Release(deploymentQueue, calls[c].safeId, calls[c].att[i].net)

\* From getBalance to sendTransaction.  The environment decides whether the
\* provider answers, the balance, whether Safe.init succeeds and whether the
\* transaction is accepted; the chain decides whether the Safe exists.
AttPrepare(c, i) ==
  /\ AttemptAt(c, i)
  /\ calls[c].att[i].pc = "balance"
  /\ \E env \in {"rpcError", "zeroBalance", "initFails", "sendFails", "ok"} :
       LET a == calls[c].att[i]
           predictedAddress == predictAddress(calls[c].config, a.net)
       IN /\ ~hasRpc(a.net) => env = "rpcError"
          /\ IF env = "rpcError" THEN Fail(c, i, "RPC error")
             ELSE IF env = "zeroBalance" THEN Fail(c, i, "No balance")
             ELSE IF env = "initFails" THEN Fail(c, i, "Safe initialization failed")
             ELSE IF <<a.net, predictedAddress>> \in chain
               THEN /\ calls' = [calls EXCEPT ![c].att[i] =
                         [a EXCEPT !.pc = "fulfilled", !.address = predictedAddress,
                                   !.isExisting = TRUE,
                                   !.ord = SettleOrd(calls[c].att)]]
                    /\ deploymentQueue' = Release(deploymentQueue, calls[c].safeId, a.net)
             ELSE IF env = "sendFails" THEN Fail(c, i, "Submission error")
             ELSE /\ calls' = [calls EXCEPT ![c].att[i] =
                       [a EXCEPT !.pc = "wait", !.address = predictedAddress,
                                 !.submitted = TRUE]]
                  /\ UNCHANGED deploymentQueue
  /\ UNCHANGED <<db, chain, nvaults, ops>>

waitOutcomeUnverified(receipt, isDeployed) ==
  IF ~receipt THEN "Transaction receipt not found" ELSE ""

\* The end of an attempt after sendTransaction: the error it throws ("" when
\* it returns), given whether wait() produced a receipt and what the
\* isSafeDeployed() that follows answers.
waitOutcome(receipt, isDeployed) ==
  IF ~receipt THEN "Transaction receipt not found"
  ELSE IF ~isDeployed THEN "Safe deployment verification failed"
  ELSE ""

\* await txResponse.wait() and the isSafeDeployed() that follows: no
\* receipt; a receipt and the contract at the predicted address; a receipt
\* but no code at the predicted address.
AttConfirm(c, i) ==
  /\ AttemptAt(c, i)
  /\ calls[c].att[i].pc = "wait"
  /\ \E receipt \in {"none", "created", "nocode"} :
       LET a == calls[c].att[i]
           mined == IF receipt = "created" THEN chain \cup {<<a.net, a.address>>} ELSE chain
           err == waitOutcome(receipt # "none", <<a.net, a.address>> \in mined)
       IN /\ chain' = mined
          /\ calls' = [calls EXCEPT ![c].att[i] =
               [a EXCEPT !.pc = IF err = "" THEN "fulfilled" ELSE "rejected",
                         !.err = err,
                         !.receipt = (receipt # "none"),
                         !.ord = SettleOrd(calls[c].att)]]
          /\ deploymentQueue' = Release(deploymentQueue, calls[c].safeId, a.net)
  /\ UNCHANGED <<db, nvaults, ops>>

\* ---- harvesting Promise.allSettled
\* The DeploymentResult of a settled attempt: result.value, or the failed
\* record the caller builds from result.reason.
ResultOf(a) ==
  IF a.pc = "fulfilled"
    THEN [networkKey |-> a.net, chainId |-> chainIdOf(a.net), address |-> a.address,
          deploymentStatus |-> "deployed", error |-> "", isExisting |-> a.isExisting]
    ELSE [networkKey |-> a.net, chainId |-> chainIdOf(a.net), address |-> 0,
          deploymentStatus |-> "failed", error |-> a.err, isExisting |-> FALSE]

RSetDeployedOnly(results, r) ==
  IF r.deploymentStatus # "deployed" THEN results
  ELSE IF \E j \in DOMAIN results : results[j].networkKey = r.networkKey
    THEN [j \in DOMAIN results |->
            IF results[j].networkKey = r.networkKey THEN r ELSE results[j]]
    ELSE Append(results, r)

\* deploymentResults[networkKey] = r on a Record: a known key keeps its
\* place in the enumeration order, a new key goes last.
RSet(results, r) ==
  IF \E j \in DOMAIN results : results[j].networkKey = r.networkKey
    THEN [j \in DOMAIN results |->
            IF results[j].networkKey = r.networkKey THEN r ELSE results[j]]
    ELSE Append(results, r)

RECURSIVE BuildResultsAsSettled(_, _)
BuildResultsAsSettled(att, acc) ==
  IF att = <<>> THEN acc
  ELSE LET i == CHOOSE i \in DOMAIN att : \A j \in DOMAIN att : att[i].ord <= att[j].ord
           rest == [j \in 1..(Len(att) - 1) |-> IF j < i THEN att[j] ELSE att[j + 1]]
       IN BuildResultsAsSettled(rest, RSet(acc, ResultOf(att[i])))

\* The loop over results[i] / networks[i] after Promise.allSettled, which
\* keeps the order of the request.
RECURSIVE BuildResults(_, _)
BuildResults(att, acc) ==
  IF att = <<>> THEN acc
  ELSE BuildResults(Tail(att), RSet(acc, ResultOf(Head(att))))

getCommonAddressOrAbsent(deployments) ==
  LET successfulDeployments ==
        SelectSeq(deployments, LAMBDA d : d.deploymentStatus = "deployed")
  IN IF Len(successfulDeployments) = 0 THEN 0
     ELSE IF \E i, j \in DOMAIN successfulDeployments :
               successfulDeployments[i].address # successfulDeployments[j].address
       THEN 0
     ELSE successfulDeployments[1].address

\* getCommonAddress: the first deployed address, undefined (0) without one.
\* More than one distinct address only logs a warning.
getCommonAddress(deployments) ==
  LET successfulDeployments ==
        SelectSeq(deployments, LAMBDA d : d.deploymentStatus = "deployed")
  IN IF Len(successfulDeployments) = 0 THEN 0
     ELSE successfulDeployments[1].address

\* deploySafesForUser after allSettled: build deploymentResults, enter
\* updateSafeDeployments and load the record.
DeploySettle(c) ==
  /\ NoneDone
  /\ calls[c].op = "deploy"
  /\ calls[c].pc = "attempts"
  /\ AllSettled(calls[c].att)
  /\ findOne(calls[c].safeId) # <<>>
  /\ calls' = [calls EXCEPT ![c].pc = "update",
                            ![c].results = BuildResults(calls[c].att, <<>>),
                            ![c].doc = <<Loaded(findOne(calls[c].safeId)[1])>>,
                            ![c].i = 1]
  /\ UNCHANGED <<db, chain, deploymentQueue, nvaults, ops>>

\* Index of the next deployed entry of results at or after i (0: none).
NextDeployed(results, i) ==
  LET S == {j \in DOMAIN results : j >= i /\ results[j].deploymentStatus = "deployed"}
  IN IF S = {} THEN 0 ELSE CHOOSE j \in S : \A k \in S : j <= k

\* updateSafeDeployments, one turn of the loop that reaches addDeployment:
\* the entry is set, the counts recomputed and the document saved.
DeployAdd(c) ==
  /\ NoneDone
  /\ calls[c].op = "deploy"
  /\ calls[c].pc = "update"
  /\ NextDeployed(calls[c].results, calls[c].i) # 0
  /\ LET j == NextDeployed(calls[c].results, calls[c].i)
         r == calls[c].results[j]
         doc == addDeploymentDoc(calls[c].doc[1], r.networkKey, r)
     IN IF saveThrows(doc)
          THEN /\ calls' = [calls EXCEPT ![c] =
                    Done([@ EXCEPT !.doc = <<doc>>], "thrown", "ValidationError",
                         500, "Safe deployment failed")]
               /\ UNCHANGED db
          ELSE IF saveConflicts(doc, db[calls[c].safeId][1])
          THEN /\ calls' = [calls EXCEPT ![c] =
                    Done([@ EXCEPT !.doc = <<doc>>], "thrown", "VersionError",
                         500, "Safe deployment failed")]
               /\ UNCHANGED db
          ELSE /\ db' = [db EXCEPT ![calls[c].safeId] = <<saveWrite(doc, @[1])>>]
               /\ calls' = [calls EXCEPT ![c].doc = <<Saved(doc)>>,
                                         ![c].has = TRUE,
                                         ![c].i = j + 1]
  /\ UNCHANGED <<chain, deploymentQueue, nvaults, ops>>

PromoteOrDemote(doc, has) ==
  [doc EXCEPT !.rec.status = IF has THEN "active" ELSE "initializing",
              !.dStatus = TRUE]

PromoteAlways(doc, has) ==
  IF doc.rec.status = "initializing"
    THEN [doc EXCEPT !.rec.status = "active", !.dStatus = TRUE]
    ELSE doc

\* The promotion both handlers apply to their in-memory document.
Promote(doc, has) ==
  IF has /\ doc.rec.status = "initializing"
    THEN [doc EXCEPT !.rec.status = "active", !.dStatus = TRUE]
    ELSE doc

\* updateSafeDeployments after the loop (promotion, save), the determinism
\* log, getCommonAddress, and the response of SafeController.deploySafes.
DeployFinish(c) ==
  /\ NoneDone
  /\ calls[c].op = "deploy"
  /\ calls[c].pc = "update"
  /\ NextDeployed(calls[c].results, calls[c].i) = 0
  /\ LET doc == Promote(calls[c].doc[1], calls[c].has)
         successfulDeployments ==
           SelectSeq(calls[c].results, LAMBDA d : d.deploymentStatus = "deployed")
         call == [calls[c] EXCEPT !.doc = <<Saved(doc)>>,
                                  !.common = getCommonAddress(calls[c].results)]
     IN /\ db' = [db EXCEPT ![calls[c].safeId] = <<saveWrite(doc, @[1])>>]
        /\ calls' = [calls EXCEPT ![c] =
             IF Len(successfulDeployments) = 0
               THEN Done(call, "returned", "", 500, "All Safe deployments failed")
               ELSE Done(call, "returned", "", 201, "")]
  /\ UNCHANGED <<chain, deploymentQueue, nvaults, ops>>

\* expandSafeToNetworks, one turn of the loop over the settled results.
ExpandProcess(c) ==
  /\ NoneDone
  /\ calls[c].op = "expand"
  /\ calls[c].pc = "attempts"
  /\ AllSettled(calls[c].att)
  /\ calls[c].i <= Len(calls[c].att)
  /\ LET a == calls[c].att[calls[c].i]
         r == ResultOf(a)
         doc == addDeploymentDoc(calls[c].doc[1], a.net, r)
     IN IF a.pc = "fulfilled"
          THEN IF saveThrows(doc)
                 THEN /\ calls' = [calls EXCEPT ![c] =
                           Done([@ EXCEPT !.doc = <<doc>>,
                                          !.results = RSet(@, r)],
                                "thrown", "ValidationError", 500, "Safe expansion failed")]
                      /\ UNCHANGED db
                 ELSE IF saveConflicts(doc, db[calls[c].safeId][1])
                 THEN /\ calls' = [calls EXCEPT ![c] =
                           Done([@ EXCEPT !.doc = <<doc>>,
                                          !.results = RSet(@, r)],
                                "thrown", "VersionError", 500, "Safe expansion failed")]
                      /\ UNCHANGED db
                 ELSE /\ db' = [db EXCEPT ![calls[c].safeId] = <<saveWrite(doc, @[1])>>]
                      /\ calls' = [calls EXCEPT ![c].doc = <<Saved(doc)>>,
                                                ![c].results = RSet(@, r),
                                                ![c].has = TRUE,
                                                ![c].i = @ + 1]
          ELSE IF getNetworkThrows(a.net)
                 THEN /\ calls' = [calls EXCEPT ![c] =
                           Done(@, "thrown", "Unsupported network", 500,
                                "Safe expansion failed")]
                      /\ UNCHANGED db
                 ELSE /\ calls' = [calls EXCEPT ![c].results = RSet(@, r),
                                                ![c].i = @ + 1]
                      /\ UNCHANGED db
  /\ UNCHANGED <<chain, deploymentQueue, nvaults, ops>>

\* expandSafeToNetworks after the loop: the promotion with its save, then
\* the response of SafeController.expandSafe.
ExpandFinish(c) ==
  /\ NoneDone
  /\ calls[c].op = "expand"
  /\ calls[c].pc = "attempts"
  /\ AllSettled(calls[c].att)
  /\ calls[c].i > Len(calls[c].att)
  /\ LET doc == Promote(calls[c].doc[1], calls[c].has)
         call == [calls[c] EXCEPT !.doc = <<Saved(doc)>>,
                                  !.common = getCommonAddress(calls[c].results)]
     IN /\ db' = [db EXCEPT ![calls[c].safeId] = <<saveWrite(doc, @[1])>>]
        /\ calls' = [calls EXCEPT ![c] = Done(call, "returned", "", 200, "")]
  /\ UNCHANGED <<chain, deploymentQueue, nvaults, ops>>

\* The methods SafeSchema defines on a document.  updateStatus is not one.
SafeMethods ==
  {"addDeployment", "getDeployment", "updateAnalytics", "isDeployedOnNetwork",
   "getActiveDeployments", "updateLastActivity"}

\* safe.updateStatus(newStatus): calling what the document does not have is
\* a TypeError; with the method it would set the status and save.
updateStatus(doc, newStatus) ==
  IF "updateStatus" \in SafeMethods
    THEN [threw |-> FALSE, doc |-> [doc EXCEPT !.rec.status = newStatus, !.dStatus = TRUE]]
    ELSE [threw |-> TRUE, doc |-> doc]

\* SafeService.updateSafeStatus(safeId, newStatus), the whole call (no
\* controller method exists for the route, so no HTTP status is modelled).
SetStatus(c, safeId, newStatus) ==
  /\ CanStart(c, <<>>)
  /\ safeId \in 1..MaxVaults
  /\ newStatus \in Statuses
  /\ ops' = ops + 1
  /\ LET call == [NewCall("setStatus", safeId, <<>>, NewConfig(0)) EXCEPT !.input = newStatus]
     IN IF findOne(safeId) = <<>>
          THEN /\ calls' = [calls EXCEPT ![c] = Done(call, "thrown", "Safe not found", 0, "")]
               /\ UNCHANGED db
          ELSE LET u == updateStatus(Loaded(findOne(safeId)[1]), newStatus) IN
               IF u.threw
                 THEN /\ calls' = [calls EXCEPT ![c] =
                           Done(call, "thrown", "safe.updateStatus is not a function", 0, "")]
                      /\ UNCHANGED db
                 ELSE /\ calls' = [calls EXCEPT ![c] = Done(call, "returned", "", 0, "")]
                      /\ db' = [db EXCEPT ![safeId] = <<saveWrite(u.doc, @[1])>>]
  /\ UNCHANGED <<chain, deploymentQueue, nvaults>>

\* The metadata objects a client sends: one that names only fields the
\* record model leaves out (description, tags), one that names the count.
MetadataInputs == {"description", "totalDeployments"}

\* PUT /api/safe/:safeId/metadata: SafeController.updateSafeMetadata ->
\* SafeService.updateSafeMetadata: Object.assign(safe.metadata, metadata) and
\* save.
UpdateMetadata(c, safeId, metadata) ==
  /\ CanStart(c, <<>>)
  /\ safeId \in 1..MaxVaults
  /\ metadata \in MetadataInputs
  /\ ops' = ops + 1
  /\ LET call == [NewCall("metadata", safeId, <<>>, NewConfig(0)) EXCEPT !.input = metadata]
     IN IF findOne(safeId) = <<>>
          THEN /\ calls' = [calls EXCEPT ![c] =
                    Done(call, "thrown", "Safe not found", 404, "Safe not found")]
               /\ UNCHANGED db
          ELSE LET safe == Loaded(findOne(safeId)[1])
                   doc == IF metadata = "totalDeployments"
                            THEN [safe EXCEPT !.rec.totalDeployments = 0, !.dMeta = TRUE]
                            ELSE safe
               IN /\ calls' = [calls EXCEPT ![c] = Done(call, "returned", "", 200, "")]
                  /\ db' = [db EXCEPT ![safeId] = <<saveWrite(doc, @[1])>>]
  /\ UNCHANGED <<chain, deploymentQueue, nvaults>>

\* The response has been sent; the handler's slot is free again.
Return(c) ==
  /\ calls[c].pc = "done"
  /\ calls' = [calls EXCEPT ![c] = Idle]
  /\ UNCHANGED <<db, chain, deploymentQueue, nvaults, ops>>

Next ==
  \E c \in 1..MaxCalls :
    \/ \E networks \in Requests : DeployStart(c, networks)
    \/ \E safeId \in 1..MaxVaults, networks \in Requests : ExpandStart(c, safeId, networks)
    \/ DeployLaunch(c)
    \/ \E i \in 1..MaxLoad : AttPrepare(c, i)
    \/ \E i \in 1..MaxLoad : AttConfirm(c, i)
    \/ DeploySettle(c)
    \/ DeployAdd(c)
    \/ DeployFinish(c)
    \/ ExpandProcess(c)
    \/ ExpandFinish(c)
    \/ \E safeId \in 1..MaxVaults, newStatus \in Statuses : SetStatus(c, safeId, newStatus)
    \/ \E safeId \in 1..MaxVaults, metadata \in MetadataInputs :
         UpdateMetadata(c, safeId, metadata)
    \/ Return(c)

Spec == Init /\ [][Next]_vars

\* The steps of the handler in slot c that the event loop and the answering
\* provider drive: every continuation of the handler and of its attempts up
\* to the submission.  The receipt is not among them: txResponse.wait() is
\* called without a timeout, so nothing in the program ends that wait.
HandlerStep(c) ==
  \/ DeployLaunch(c)
  \/ \E i \in 1..MaxLoad : AttPrepare(c, i)
  \/ DeploySettle(c)
  \/ DeployAdd(c)
  \/ DeployFinish(c)
  \/ ExpandProcess(c)
  \/ ExpandFinish(c)
  \/ Return(c)

\* Spec with the scheduling the runtime guarantees: a continuation that is
\* ready to run is run.
SpecLive == Init /\ [][Next]_vars /\ \A c \in 1..MaxCalls : WF_vars(HandlerStep(c))

\* ------------------------------------------- getCommonAddress on its own
\* The keys of a result record, in insertion order.
NetworkOrder == <<"sepolia", "arbitrum_sepolia", "base_sepolia", "constructor", "bogus">>

\* A DeploymentResult: deployed at address a, or failed when a = 0.
ResultInput(j, a) ==
  [networkKey |-> NetworkOrder[j], chainId |-> chainIdOf(NetworkOrder[j]),
   address |-> a,
   deploymentStatus |-> IF a = 0 THEN "failed" ELSE "deployed",
   error |-> IF a = 0 THEN "No balance" ELSE "", isExisting |-> FALSE]

\* Any record of at most MaxResults results over MaxAddress addresses is
\* handed to getCommonAddress.
InitCommon ==
  /\ db = [v \in 1..MaxVaults |-> <<>>]
  /\ chain = {}
  /\ deploymentQueue = {}
  /\ nvaults = 0
  /\ ops = 0
  /\ \E n \in 0..MaxResults : \E f \in [1..n -> 0..MaxAddress] :
       calls = [c \in 1..MaxCalls |->
                  IF c = 1
                    THEN [NewCall("common", 0, <<>>, NewConfig(0)) EXCEPT
                            !.results = [j \in 1..n |-> ResultInput(j, f[j])]]
                    ELSE Idle]

\* commonAddress: this.getCommonAddress(deployments)
CommonApply ==
  /\ calls[1].op = "common"
  /\ calls[1].pc = "attempts"
  /\ calls' = [calls EXCEPT ![1] =
       Done([@ EXCEPT !.common = getCommonAddress(calls[1].results)],
            "returned", "", 0, "")]
  /\ UNCHANGED <<db, chain, deploymentQueue, nvaults, ops>>

NextCommon == CommonApply

SpecCommon == InitCommon /\ [][NextCommon]_vars

\* ------------------------------------------------------------ properties
Slots == 1..MaxCalls
Orchestrating(c) == calls[c].op \in {"deploy", "expand"}

\* The attempts in flight for the pair (safeId, networkKey).
InFlightFor(safeId, networkKey) ==
  {ci \in Slots \X (1..MaxLoad) :
     /\ Orchestrating(ci[1])
     /\ calls[ci[1]].safeId = safeId
     /\ ci[2] \in DOMAIN calls[ci[1]].att
     /\ calls[ci[1]].att[ci[2]].net = networkKey
     /\ InFlight(calls[ci[1]].att[ci[2]])}

C3_MarksAreInFlightAttempts ==
  deploymentQueue =
    {p \in (1..MaxVaults) \X Keys : InFlightFor(p[1], p[2]) # {}}

\* No mark is left after one attempt of a call failed late (no receipt) and
\* another one deployed.
C3_Witness ==
  /\ deploymentQueue = {}
  /\ \E c \in Slots : \E i, j \in DOMAIN calls[c].att :
       /\ calls[c].att[i].err = "Transaction receipt not found"
       /\ calls[c].att[j].pc = "fulfilled"

\* The handler of slot c has answered after its attempts ran.
Finished(c) ==
  /\ Orchestrating(c)
  /\ calls[c].pc = "done"
  /\ calls[c].att # <<>>

\* Positions of the deployed entries of a result record.
DeployedIn(results) ==
  {j \in DOMAIN results : results[j].deploymentStatus = "deployed"}

\* The call of slot c has an attempt on network k that deployed.
SucceededOn(c, k) ==
  \E i \in DOMAIN calls[c].att :
    calls[c].att[i].net = k /\ calls[c].att[i].pc = "fulfilled"

\* The aggregate of slot c reports network k as failed, with the error
\* message of one of the call's failed attempts on k.
ReportsFailure(c, k) ==
  \E j \in DOMAIN calls[c].results :
    /\ calls[c].results[j].networkKey = k
    /\ calls[c].results[j].deploymentStatus = "failed"
    /\ \E i \in DOMAIN calls[c].att :
         /\ calls[c].att[i].net = k
         /\ calls[c].att[i].pc = "rejected"
         /\ calls[c].results[j].error = calls[c].att[i].err

\* C1: every requested network of a createVault gets its own attempt, all
\* attempts of a call run to success or failure, and the call returns an
\* aggregate with an entry for every attempted network: deployed (at the
\* attempt's address) where an attempt succeeded, failed with the error
\* message of its attempt otherwise.
C1_FailureIsolation ==
  \A c \in Slots :
    /\ (calls[c].op = "deploy" /\ calls[c].pc \in {"attempts", "update", "done"}
        /\ calls[c].safeId # 0)
         => /\ Len(calls[c].att) = Len(calls[c].networks)
            /\ \A i \in DOMAIN calls[c].att : calls[c].att[i].net = calls[c].networks[i]
    /\ Finished(c)
         => /\ AllSettled(calls[c].att)
            /\ calls[c].outcome = "returned"
            /\ \A i \in DOMAIN calls[c].att :
                 IF SucceededOn(c, calls[c].att[i].net)
                   THEN \E j \in DOMAIN calls[c].results :
                          /\ calls[c].results[j].networkKey = calls[c].att[i].net
                          /\ calls[c].results[j].deploymentStatus = "deployed"
                          /\ calls[c].results[j].address =
                               predictAddress(calls[c].config, calls[c].att[i].net)
                   ELSE ReportsFailure(c, calls[c].att[i].net)

\* C4: a createVault over two or more networks whose attempts all deployed
\* returns a defined commonAddress that equals the address of every
\* per-network result (so no two results differ).
C4_Determinism ==
  \A c \in Slots :
    (/\ calls[c].op = "deploy"
     /\ calls[c].pc = "done"
     /\ Len(calls[c].att) >= 2
     /\ \A i \in DOMAIN calls[c].att : calls[c].att[i].pc = "fulfilled")
      => /\ calls[c].outcome = "returned"
         /\ calls[c].common # 0
         /\ \A i \in DOMAIN calls[c].att :
              \E j \in DOMAIN calls[c].results :
                /\ calls[c].results[j].networkKey = calls[c].att[i].net
                /\ calls[c].results[j].address = calls[c].common

C6_UnknownKeyNoSideEffects ==
  \A c \in Slots :
    (calls[c].op = "deploy"
     /\ \E i \in DOMAIN calls[c].networks : calls[c].networks[i] \notin NETWORKS)
      => /\ calls[c].pc = "done"
         /\ calls[c].outcome = "thrown"
         /\ calls[c].err = "Unsupported network"
         /\ calls[c].safeId = 0
         /\ calls[c].att = <<>>

\* C7: when a createVault or expandVault has finished and one of its
\* attempts deployed, the persisted status of the vault is not (any longer)
\* initializing.
C7_Promotion ==
  \A c \in Slots :
    (Finished(c) /\ \E i \in DOMAIN calls[c].att : calls[c].att[i].pc = "fulfilled")
      => /\ db[calls[c].safeId] # <<>>
         /\ db[calls[c].safeId][1].status # "initializing"

\* C8: a createVault whose attempts have run answers with the aggregate
\* "All Safe deployments failed" error, carrying every per-network error,
\* if and only if none of its attempts deployed; with at least one deployed
\* it returns the aggregate result (201).
C8_RejectsIffZeroSuccess ==
  \A c \in Slots :
    (calls[c].op = "deploy" /\ calls[c].pc = "done" /\ calls[c].safeId # 0) =>
      IF \A i \in DOMAIN calls[c].att : calls[c].att[i].pc = "rejected"
        THEN /\ calls[c].http = 500
             /\ calls[c].body = "All Safe deployments failed"
             /\ \A i \in DOMAIN calls[c].att : ReportsFailure(c, calls[c].att[i].net)
        ELSE /\ calls[c].outcome = "returned"
             /\ calls[c].http = 201

\* A createVault has answered and every one of its attempts failed.
AllFailedCreate(c) ==
  /\ calls[c].op = "deploy"
  /\ Finished(c)
  /\ \A i \in DOMAIN calls[c].att : calls[c].att[i].pc = "rejected"

C9_Kept ==
  \A c \in Slots :
    AllFailedCreate(c) =>
      /\ db[calls[c].safeId] # <<>>
      /\ db[calls[c].safeId][1].config = NewConfig(calls[c].safeId)
      /\ \/ db[calls[c].safeId][1].status = "initializing"
         \/ \E k \in Keys : isDeployedOnNetwork(db[calls[c].safeId][1], k)

C9_Untouched ==
  \A c \in Slots : (~AllFailedCreate(c) /\ AllFailedCreate(c)') => db' = db

C10_EveryAttemptPersisted ==
  \A c \in Slots :
    (Finished(c) /\ calls[c].outcome = "returned") =>
      /\ db[calls[c].safeId] # <<>>
      /\ \A i \in DOMAIN calls[c].att :
           LET deps == db[calls[c].safeId][1].deployments
               k == calls[c].att[i].net
           IN /\ HasDep(deps, k)
              /\ deps[k].deploymentStatus =
                   IF SucceededOn(c, k) THEN "deployed" ELSE "failed"

\* Every handler that has loaded or created a vault holds the persisted
\* creation parameters, and so does every attempt it started.
C11_AttemptsGetPersisted ==
  \A c \in Slots :
    (Orchestrating(c) /\ calls[c].safeId # 0 /\ calls[c].att # <<>>)
      => /\ db[calls[c].safeId] # <<>>
         /\ calls[c].config = db[calls[c].safeId][1].config
         /\ calls[c].config = NewConfig(calls[c].safeId)

\* No step changes the parameters of a persisted record or removes it.
C11_ConfigKept ==
  \A v \in 1..MaxVaults :
    db[v] # <<>> => (db'[v] # <<>> /\ db'[v][1].config = db[v][1].config)

\* C11: the creation parameters (owners, threshold, salt) of a vault are
\* fixed at creation: every attempt made for the vault by createVault and by
\* every later expandVault receives exactly the persisted parameters, and no
\* createVault, expandVault, setStatus or metadata update changes them.
C11_ParametersFixed == []C11_AttemptsGetPersisted /\ [][C11_ConfigKept]_vars

\* An expandVault has an attempt in flight on a vault whose record already
\* holds a deployment and was rewritten by a metadata update.
C11_Witness ==
  \E c \in Slots :
    /\ calls[c].op = "expand"
    /\ \E i \in DOMAIN calls[c].att : InFlight(calls[c].att[i])
    /\ db[calls[c].safeId][1].deployments # <<>>
    /\ db[calls[c].safeId][1].totalDeployments = 0
    /\ calls[c].config = db[calls[c].safeId][1].config

\* Slot c takes an expandVault request in this step.
ExpandArrives(c) == calls[c].op = "idle" /\ calls'[c].op = "expand"

\* C12: an expandVault on a vaultId that has no record fails with the
\* vault-not-found error before any attempt starts: no attempt is made, no
\* in-flight mark is set and no record is created or changed.
C12_MissingVault ==
  [][\A c \in Slots :
       (ExpandArrives(c) /\ db[calls'[c].safeId] = <<>>)
         => /\ calls'[c].pc = "done"
            /\ calls'[c].att = <<>>
            /\ Len(calls'[c].networks) > 0
                 => (calls'[c].outcome = "thrown" /\ calls'[c].err = "Safe not found")
            /\ deploymentQueue' = deploymentQueue
            /\ db' = db
            /\ chain' = chain]_vars

\* An expandVault naming networks has been answered with the not-found
\* error for a vault that has no record.
C12_Witness ==
  \E c \in Slots :
    /\ calls[c].op = "expand"
    /\ calls[c].pc = "done"
    /\ Len(calls[c].networks) = 2
    /\ calls[c].err = "Safe not found"
    /\ db[calls[c].safeId] = <<>>
    /\ deploymentQueue = {}

\* The record holds a deployed and active entry for network k.
Covered(rec, k) ==
  /\ k \in DOMAIN rec.deployments
  /\ rec.deployments[k].deploymentStatus = "deployed"
  /\ rec.deployments[k].isActive

\* The networks of a list of attempts, in order.
NetsOf(att) == [i \in DOMAIN att |-> att[i].net]

\* An expandVault that finds its record starts attempts for exactly the
\* requested networks the record does not cover.
C13_AttemptsUncovered ==
  \A c \in Slots :
    (ExpandArrives(c) /\ db[calls'[c].safeId] # <<>> /\ Len(calls'[c].networks) > 0)
      => NetsOf(calls'[c].att) =
           SelectSeq(calls'[c].networks, LAMBDA k : ~Covered(db[calls'[c].safeId][1], k))

\* A step of an expandVault leaves the entry of every network it has no
\* attempt for as it was.
C13_OthersUntouched ==
  \A c \in Slots :
    (calls[c].op = "expand" /\ calls'[c] # calls[c] /\ db[calls[c].safeId] # <<>>)
      => \A k \in Keys :
           (\A i \in DOMAIN calls[c].att : calls[c].att[i].net # k)
             => LET old == db[calls[c].safeId][1].deployments
                    new == db'[calls[c].safeId][1].deployments
                IN /\ (k \in DOMAIN old) = (k \in DOMAIN new)
                   /\ k \in DOMAIN old => new[k] = old[k]

\* C13: expandVault skips covered networks: called with [X, Y] on a vault
\* with a deployed and active record on X it starts an attempt only for Y,
\* and no step of the call changes X's record; a network without a deployed
\* and active record is attempted.
C13_SkipsCovered == [][C13_AttemptsUncovered /\ C13_OthersUntouched]_vars

\* An expandVault asked for a covered and an uncovered network has returned:
\* it made one attempt, for the second network, and both are recorded.
C13_Witness ==
  \E c \in Slots :
    /\ calls[c].op = "expand"
    /\ calls[c].pc = "done"
    /\ calls[c].outcome = "returned"
    /\ Len(calls[c].networks) = 2
    /\ Len(calls[c].att) = 1
    /\ calls[c].att[1].net = calls[c].networks[2]
    /\ calls[c].att[1].pc = "fulfilled"
    /\ Covered(db[calls[c].safeId][1], calls[c].networks[1])
    /\ Covered(db[calls[c].safeId][1], calls[c].networks[2])

\* C14: an expandVault whose requested networks are all covered (deployed
\* and active) fails with "Safe already deployed on all specified networks",
\* starts no attempt and leaves the record, the marks and the chain as they
\* were.
C14_NothingToExpand ==
  [][\A c \in Slots :
       (/\ ExpandArrives(c)
        /\ db[calls'[c].safeId] # <<>>
        /\ Len(calls'[c].networks) > 0
        /\ \A i \in DOMAIN calls'[c].networks :
             Covered(db[calls'[c].safeId][1], calls'[c].networks[i]))
         => /\ calls'[c].pc = "done"
            /\ calls'[c].outcome = "thrown"
            /\ calls'[c].err = "Safe already deployed on all specified networks"
            /\ calls'[c].att = <<>>
            /\ db' = db
            /\ deploymentQueue' = deploymentQueue
            /\ chain' = chain]_vars

\* An expandVault for two networks, both covered, has been refused.
C14_Witness ==
  \E c \in Slots :
    /\ calls[c].op = "expand"
    /\ calls[c].pc = "done"
    /\ calls[c].err = "Safe already deployed on all specified networks"
    /\ Len(calls[c].networks) = 2
    /\ calls[c].networks[1] # calls[c].networks[2]
    /\ \A i \in DOMAIN calls[c].networks :
         Covered(db[calls[c].safeId][1], calls[c].networks[i])
    /\ calls[c].att = <<>>

\* C15: an expandVault whose attempts have started does not reject: it
\* returns, every failed network (one the registry does not know included)
\* is reported as failed in the result, and every network that deployed in
\* the call is recorded in the vault record and counted for the promotion.
\* Stated for calls whose deployed networks the record schema accepts.
C15_ExpandNeverRejects ==
  \A c \in Slots :
    (/\ calls[c].op = "expand"
     /\ Finished(c)
     /\ \A i \in DOMAIN calls[c].att :
          calls[c].att[i].pc = "fulfilled" => calls[c].att[i].net \in SchemaNetworkKeys)
      => /\ calls[c].outcome = "returned"
         /\ \A i \in DOMAIN calls[c].att :
              IF calls[c].att[i].pc = "fulfilled"
                THEN /\ Covered(db[calls[c].safeId][1], calls[c].att[i].net)
                     /\ db[calls[c].safeId][1].status # "initializing"
                ELSE ReportsFailure(c, calls[c].att[i].net)

\* Slot c takes a setStatus request in this step.
SetStatusArrives(c) == calls[c].op = "idle" /\ calls'[c].op = "setStatus"

\* C16: the only status change createVault and expandVault ever make is
\* initializing -> active: a step that is not a setStatus changes the status
\* of a record only from initializing to active, so a call on a vault that is
\* active, suspended or archived leaves its status as it is, whatever the
\* outcomes of its attempts.
C16_StatusMonotone ==
  [][\A v \in 1..MaxVaults :
       (/\ db[v] # <<>>
        /\ db'[v] # <<>>
        /\ db'[v][1].status # db[v][1].status
        /\ ~\E c \in Slots : SetStatusArrives(c))
         => (db[v][1].status = "initializing" /\ db'[v][1].status = "active")]_vars

\* An expandVault whose attempts all failed has returned on a vault that an
\* earlier call had promoted; the vault is still active.
C16_Witness ==
  \E c \in Slots :
    /\ calls[c].op = "expand"
    /\ Finished(c)
    /\ calls[c].outcome = "returned"
    /\ \A i \in DOMAIN calls[c].att : calls[c].att[i].pc = "rejected"
    /\ db[calls[c].safeId][1].status = "active"

\* C17: setStatus(vaultId, newStatus) on an existing vault succeeds for
\* every newStatus and leaves the persisted status equal to newStatus; on a
\* missing vault it fails with the vault-not-found error.
C17_SetStatus ==
  \A c \in Slots :
    (calls[c].op = "setStatus" /\ calls[c].pc = "done") =>
      IF db[calls[c].safeId] = <<>>
        THEN calls[c].outcome = "thrown" /\ calls[c].err = "Safe not found"
        ELSE /\ calls[c].outcome = "returned"
             /\ db[calls[c].safeId][1].status = calls[c].input

\* Positions of att that are the first attempt on their network.
FirstOn(att) ==
  {i \in DOMAIN att : \A j \in DOMAIN att : j < i => att[j].net # att[i].net}

\* The last attempt of att on network k.
LastOn(att, k) ==
  CHOOSE i \in DOMAIN att :
    att[i].net = k /\ \A j \in DOMAIN att : att[j].net = k => j <= i

\* results lists the networks of att in the order of the request, each with
\* the outcome of its (last) attempt, whenever the attempts settled.
InRequestOrder(att, results) ==
  /\ Len(results) = Cardinality(FirstOn(att))
  /\ \A i \in FirstOn(att) :
       results[Cardinality({x \in FirstOn(att) : x <= i})] =
         ResultOf(att[LastOn(att, att[i].net)])

\* C18: the aggregate a createVault or expandVault returns and the record it
\* leaves are determined by the request and the per-network outcomes alone:
\* the results are in request order with each network's outcome, the common
\* address is the first deployed one, every deployed result is the persisted
\* entry of its network and promotes the vault, in whatever order the
\* attempts settled.
C18_OrderIrrelevant ==
  \A c \in Slots :
    (Finished(c) /\ calls[c].outcome = "returned") =>
      LET r == calls[c].results
          rec == db[calls[c].safeId][1]
      IN /\ InRequestOrder(calls[c].att, r)
         /\ \A j \in DeployedIn(r) :
              /\ (\A l \in DeployedIn(r) : j <= l) => calls[c].common = r[j].address
              /\ r[j].networkKey \in DOMAIN rec.deployments
              /\ rec.deployments[r[j].networkKey] = DeploymentEntry(r[j].networkKey, r[j])
              /\ rec.status = "active"
         /\ DeployedIn(r) = {} => calls[c].common = 0

\* A createVault over two networks has returned with both deployed, the
\* second attempt having settled before the first.
C18_Witness ==
  \E c \in Slots :
    /\ calls[c].op = "deploy"
    /\ Finished(c)
    /\ calls[c].outcome = "returned"
    /\ Len(calls[c].att) = 2
    /\ calls[c].att[1].pc = "fulfilled"
    /\ calls[c].att[2].pc = "fulfilled"
    /\ calls[c].att[2].ord < calls[c].att[1].ord
    /\ calls[c].results[1].networkKey = calls[c].networks[1]

\* C19: the deployment mapping of a vault never shrinks: whatever step a
\* createVault, expandVault, setStatus or metadata update takes, a network
\* key present in the persisted mapping stays present.
C19_MappingNeverShrinks ==
  [][\A v \in 1..MaxVaults :
       db[v] # <<>>
         => /\ db'[v] # <<>>
            /\ DOMAIN db[v][1].deployments \subseteq DOMAIN db'[v][1].deployments]_vars

\* The mapping holds two networks: an expandVault has added the second to
\* the one an earlier call recorded.
C19_Witness ==
  \E c \in Slots :
    /\ calls[c].op = "expand"
    /\ Finished(c)
    /\ calls[c].outcome = "returned"
    /\ Len(calls[c].att) = 1
    /\ calls[c].att[1].pc = "fulfilled"
    /\ \A d \in Slots \ {c} : calls[d].op = "idle"
    /\ Cardinality(DOMAIN db[calls[c].safeId][1].deployments) = 2

\* C20: an attempt on a network where the vault's contract already exists
\* (an earlier invocation with the same parameters deployed it), and whose
\* provider and SDK answer, returns deployed with isExisting = true and the
\* same address and submits no transaction; and a creation is confirmed only
\* where no contract exists yet, so at most once per (parameters, network).
C20_Idempotent ==
  [][\A c \in Slots, i \in 1..MaxLoad :
       (/\ i \in DOMAIN calls[c].att
        /\ i \in DOMAIN calls'[c].att
        /\ InFlight(calls[c].att[i])
        /\ Settled(calls'[c].att[i]))
         => LET old == calls[c].att[i]
                new == calls'[c].att[i]
                address == predictAddress(calls[c].config, old.net)
            IN /\ (/\ <<old.net, address>> \in chain
                   /\ new.err \notin {"RPC error", "Safe initialization failed"})
                    => /\ new.pc = "fulfilled"
                       /\ new.isExisting
                       /\ new.address = address
                       /\ ~new.submitted
                       /\ chain' = chain
               /\ (new.pc = "fulfilled" /\ ~new.isExisting)
                    => <<old.net, address>> \notin chain]_vars

\* The network keys of a result record.
KeysOf(results) == {results[j].networkKey : j \in DOMAIN results}

\* The aggregate an expandVault returns has one entry for each network it
\* attempted and no other.
C21_KeysAtReturn ==
  \A c \in Slots :
    (calls[c].op = "expand" /\ Finished(c) /\ calls[c].outcome = "returned")
      => /\ KeysOf(calls[c].results) = {calls[c].att[i].net : i \in DOMAIN calls[c].att}
         /\ Len(calls[c].results) = Cardinality(KeysOf(calls[c].results))

\* The attempts of a running expandVault stay on the networks they were
\* started for.
C21_AttemptsFixed ==
  \A c \in Slots :
    (calls[c].op = "expand" /\ calls'[c].op = "expand")
      => NetsOf(calls'[c].att) = NetsOf(calls[c].att)

\* C21: expandVault returns only the incremental results: the attempts are
\* started for exactly the requested networks the record did not cover when
\* the call loaded it, and the keys of the returned results are exactly the
\* networks of these attempts, so a network deployed earlier is not among
\* them.
C21_IncrementalOnly ==
  /\ []C21_KeysAtReturn
  /\ [][C13_AttemptsUncovered /\ C21_AttemptsFixed]_vars

\* An expandVault asked for a covered and an uncovered network has returned
\* one result, the failure of the uncovered network; the covered network is
\* in the record and not in the result.
C21_Witness ==
  \E c \in Slots :
    /\ calls[c].op = "expand"
    /\ Finished(c)
    /\ calls[c].outcome = "returned"
    /\ Len(calls[c].networks) = 2
    /\ Covered(db[calls[c].safeId][1], calls[c].networks[1])
    /\ Len(calls[c].results) = 1
    /\ calls[c].results[1].networkKey = calls[c].networks[2]
    /\ calls[c].results[1].deploymentStatus = "failed"
    /\ calls[c].networks[1] \notin KeysOf(calls[c].results)

\* C22: the response status of a finished createVault / expandVault: vault
\* not found gives 404; an unknown network in a createVault request and an
\* expandVault with no network left to expand give 400; a createVault
\* without a deployed result gives 500 "All Safe deployments failed"; a call
\* that returns with at least one deployed result gives 200/201.
C22_HttpMapping ==
  \A c \in Slots :
    (Orchestrating(c) /\ calls[c].pc = "done") =>
      /\ (calls[c].outcome = "thrown" /\ calls[c].err = "Safe not found")
           => calls[c].http = 404
      /\ (/\ calls[c].op = "deploy"
          /\ \E i \in DOMAIN calls[c].networks : ~isNetworkSupported(calls[c].networks[i]))
           => calls[c].http = 400
      /\ (/\ calls[c].outcome = "thrown"
          /\ calls[c].err = "Safe already deployed on all specified networks")
           => calls[c].http = 400
      /\ (/\ calls[c].op = "deploy"
          /\ calls[c].outcome = "returned"
          /\ DeployedIn(calls[c].results) = {})
           => (calls[c].http = 500 /\ calls[c].body = "All Safe deployments failed")
      /\ (calls[c].outcome = "returned" /\ DeployedIn(calls[c].results) # {})
           => calls[c].http \in {200, 201}

\* C23: within an attempt the check for a contract at the predicted address
\* comes before the balance check: an attempt never ends with the
\* zero-balance failure when the contract exists at its predicted address,
\* and an attempt that ends with it has submitted no transaction and left
\* the chain as it was.
C23_ExistenceBeforeBalance ==
  [][\A c \in Slots, i \in 1..MaxLoad :
       (/\ i \in DOMAIN calls[c].att
        /\ i \in DOMAIN calls'[c].att
        /\ InFlight(calls[c].att[i])
        /\ calls'[c].att[i].pc = "rejected"
        /\ calls'[c].att[i].err = "No balance")
         => /\ <<calls[c].att[i].net,
                 predictAddress(calls[c].config, calls[c].att[i].net)>> \notin chain
            /\ ~calls'[c].att[i].submitted
            /\ chain' = chain]_vars

\* An attempt of slot c at position i exists before and after the step.
SameAttempt(c, i) == i \in DOMAIN calls[c].att /\ i \in DOMAIN calls'[c].att

\* A step that makes an attempt return a freshly deployed result starts from
\* the wait on a submitted transaction, obtains the receipt and finds the
\* contract at the predicted address.
C24_FreshOnlyVerified ==
  \A c \in Slots, i \in 1..MaxLoad :
    (/\ SameAttempt(c, i)
     /\ calls[c].att[i].pc # "fulfilled"
     /\ calls'[c].att[i].pc = "fulfilled"
     /\ ~calls'[c].att[i].isExisting)
      => /\ calls[c].att[i].pc = "wait"
         /\ calls[c].att[i].submitted
         /\ ~calls[c].att[i].receipt
         /\ calls'[c].att[i].receipt
         /\ calls'[c].att[i].address =
              predictAddress(calls[c].config, calls[c].att[i].net)
         /\ <<calls[c].att[i].net, calls'[c].att[i].address>> \in chain'

\* A wait that ends without a receipt, or with a receipt but no contract at
\* the predicted address, makes the attempt fail.
C24_FailsOtherwise ==
  \A c \in Slots, i \in 1..MaxLoad :
    (/\ SameAttempt(c, i)
     /\ calls[c].att[i].pc = "wait"
     /\ Settled(calls'[c].att[i])
     /\ \/ ~calls'[c].att[i].receipt
        \/ <<calls[c].att[i].net, calls[c].att[i].address>> \notin chain')
      => /\ calls'[c].att[i].pc = "rejected"
         /\ calls'[c].att[i].err =
              IF calls'[c].att[i].receipt
                THEN "Safe deployment verification failed"
                ELSE "Transaction receipt not found"

\* No result and no persisted entry has the status pending, and an attempt
\* waits only for a transaction it has submitted.
C24_NoPending ==
  /\ \A c \in Slots :
       /\ \A j \in DOMAIN calls[c].results :
            calls[c].results[j].deploymentStatus \in {"deployed", "failed"}
       /\ \A i \in DOMAIN calls[c].att :
            /\ calls[c].att[i].pc = "wait" => calls[c].att[i].submitted
            /\ calls[c].att[i].receipt => calls[c].att[i].submitted
  /\ \A v \in 1..MaxVaults :
       db[v] # <<>> =>
         \A k \in DOMAIN db[v][1].deployments :
           db[v][1].deployments[k].deploymentStatus # "pending"

\* C24: an attempt returns a freshly deployed result (deployed, not
\* pre-existing) only after the creation transaction was submitted, then a
\* receipt obtained, then the contract found at the predicted address; an
\* absent receipt or a failed re-check makes the attempt fail; no attempt
\* returns a result with status pending.
C24_DeployedOnlyVerified ==
  /\ []C24_NoPending
  /\ [][C24_FreshOnlyVerified /\ C24_FailsOtherwise]_vars

\* Of the two attempts of a call, one returned a fresh deployment after its
\* receipt and the other failed the verification after its receipt.
C24_Witness ==
  \E c \in Slots : \E i, j \in DOMAIN calls[c].att :
    /\ calls[c].att[i].pc = "fulfilled"
    /\ ~calls[c].att[i].isExisting
    /\ calls[c].att[i].receipt
    /\ <<calls[c].att[i].net, calls[c].att[i].address>> \in chain
    /\ calls[c].att[j].err = "Safe deployment verification failed"
    /\ calls[c].att[j].receipt
    /\ <<calls[c].att[j].net, calls[c].att[j].address>> \notin chain

\* C25: every deployment attempt eventually settles, also when the
\* confirmation of its submitted transaction never arrives: an attempt that
\* waits for its receipt is eventually no longer in flight, with its mark
\* released, and a createVault/expandVault whose attempts were started
\* eventually answers.
C25_EveryAttemptSettles ==
  /\ \A c \in Slots, i \in 1..MaxLoad :
       (i \in DOMAIN calls[c].att /\ calls[c].att[i].pc = "wait")
         ~> ~(i \in DOMAIN calls[c].att /\ InFlight(calls[c].att[i]))
  /\ \A safeId \in 1..MaxVaults, k \in Keys :
       (\E ci \in InFlightFor(safeId, k) : calls[ci[1]].att[ci[2]].pc = "wait")
         ~> (<<safeId, k>> \notin deploymentQueue)
  /\ \A c \in Slots :
       (Orchestrating(c) /\ calls[c].pc = "attempts") ~> (calls[c].pc = "done")

\* The expandVault of slot c applies the automatic promotion in this step:
\* its document goes from initializing to active and is saved.
ExpandPromotes(c) ==
  /\ calls[c].op = "expand"
  /\ calls[c].doc # <<>>
  /\ calls'[c].doc # <<>>
  /\ calls[c].doc[1].rec.status = "initializing"
  /\ calls'[c].doc[1].rec.status = "active"

ExpandAllDeployed(c) ==
  /\ calls[c].op = "expand"
  /\ Finished(c)
  /\ \A i \in DOMAIN calls[c].att :
       calls[c].att[i].pc = "fulfilled" /\ calls[c].att[i].net \in SchemaNetworkKeys

C27_ReturnedAreRecorded ==
  \A c \in Slots :
    (calls[c].op = "expand" /\ Finished(c) /\ calls[c].outcome = "returned") =>
      \A i \in DOMAIN calls[c].att :
        calls[c].att[i].pc = "fulfilled"
          => Covered(db[calls[c].safeId][1], calls[c].att[i].net)

\* A step of a createVault or expandVault that adds a key to the persisted
\* mapping starts from a document of the stored version, moves the version on
\* and leaves the count equal to the size of the mapping.
C27_AddKeepsCount ==
  \A c \in Slots :
    (/\ Orchestrating(c)
     /\ calls[c].safeId # 0
     /\ calls'[c] # calls[c]
     /\ db[calls[c].safeId] # <<>>
     /\ DOMAIN db'[calls[c].safeId][1].deployments
          # DOMAIN db[calls[c].safeId][1].deployments)
      => /\ calls[c].doc[1].rec.version = db[calls[c].safeId][1].version
         /\ db'[calls[c].safeId][1].version = db[calls[c].safeId][1].version + 1
         /\ db'[calls[c].safeId][1].totalDeployments =
              Cardinality(DOMAIN db'[calls[c].safeId][1].deployments)

\* An expandVault that saves a new deployment from a document loaded before
\* another save moved the version is refused: it throws and writes nothing.
C27_StaleAddRefused ==
  \A c \in Slots :
    (/\ calls[c].op = "expand"
     /\ calls[c].pc = "attempts"
     /\ AllSettled(calls[c].att)
     /\ calls'[c] # calls[c]
     /\ calls[c].i <= Len(calls[c].att)
     /\ calls[c].att[calls[c].i].pc = "fulfilled"
     /\ ~HasDep(calls[c].doc[1].rec.deployments, calls[c].att[calls[c].i].net)
     /\ calls[c].doc[1].rec.version # db[calls[c].safeId][1].version)
      => /\ calls'[c].pc = "done"
         /\ calls'[c].outcome = "thrown"
         /\ calls'[c].err \in {"VersionError", "ValidationError"}
         /\ db' = db

Launches(c) == calls[c].att = <<>> /\ calls'[c].att # <<>>

\* An attempt the guard rejects leaves the mark of its pair set, with the
\* first attempt of the pair still in flight.
C28_RejectedLeavesMark ==
  \A c \in Slots, i \in 1..MaxLoad, safeId \in 1..MaxVaults, k \in Keys :
    (/\ Launches(c)
     /\ i \in DOMAIN calls'[c].att
     /\ calls'[c].safeId = safeId
     /\ calls'[c].att[i].net = k
     /\ calls'[c].att[i].err = "Deployment already in progress")
      => /\ <<safeId, k>> \in deploymentQueue'
         /\ InFlightFor(safeId, k)' # {}
         /\ \A ci \in InFlightFor(safeId, k) :
              calls'[ci[1]].att[ci[2]] = calls[ci[1]].att[ci[2]]

\* A mark is removed only in the step in which the attempt that set it
\* completes.
C28_OnlyOwnerClears ==
  \A safeId \in 1..MaxVaults, k \in Keys :
    (<<safeId, k>> \in deploymentQueue /\ <<safeId, k>> \notin deploymentQueue')
      => \E ci \in InFlightFor(safeId, k) : Settled(calls'[ci[1]].att[ci[2]])

\* While an attempt is in flight for a pair, every attempt started for the
\* pair is rejected by the guard.
C28_FurtherRejected ==
  \A c \in Slots, i \in 1..MaxLoad, safeId \in 1..MaxVaults, k \in Keys :
    (/\ Launches(c)
     /\ i \in DOMAIN calls'[c].att
     /\ calls'[c].safeId = safeId
     /\ calls'[c].att[i].net = k
     /\ InFlightFor(safeId, k) # {})
      => /\ calls'[c].att[i].pc = "rejected"
         /\ calls'[c].att[i].err = "Deployment already in progress"

\* C28: an attempt the guard rejects because its (vault, network) pair is in
\* flight does not clear the mark: the mark stays until the first attempt
\* itself completes, so every further attempt for the pair started meanwhile
\* is rejected too.
C28_GuardRejectionKeepsMark ==
  [][C28_RejectedLeavesMark /\ C28_OnlyOwnerClears /\ C28_FurtherRejected]_vars

\* The third request: its attempt was rejected by the guard while the first
\* attempt of the pair, started by another call, waits for its receipt with
\* the mark set.
C28_Witness ==
  \E c, d \in Slots : \E i \in DOMAIN calls[c].att, j \in DOMAIN calls[d].att :
    /\ c # d
    /\ ops = MaxOps
    /\ calls[c].safeId = calls[d].safeId
    /\ calls[c].att[i].net = calls[d].att[j].net
    /\ calls[c].att[i].pc = "wait"
    /\ calls[d].att[j].err = "Deployment already in progress"
    /\ <<calls[c].safeId, calls[c].att[i].net>> \in deploymentQueue

\* C29: in the aggregate a createVault or expandVault returns, a network on
\* which an attempt of the call deployed is reported as deployed, and it is
\* recorded as deployed in the vault record, also when the request names the
\* network twice and the second attempt was rejected by the guard.
C29_SuccessSurvivesDuplicate ==
  \A c \in Slots :
    (Finished(c) /\ calls[c].outcome = "returned") =>
      \A k \in Keys :
        SucceededOn(c, k)
          => /\ \E j \in DeployedIn(calls[c].results) : calls[c].results[j].networkKey = k
             /\ Covered(db[calls[c].safeId][1], k)

\* C30: when a createVault or expandVault has finished, returned or thrown,
\* and no other call is running on its vault, a record with at least one
\* deployed entry in its mapping has left the status initializing (no
\* setStatus ever changes a status, so it is active).
C30_DeployedImpliesActive ==
  \A c \in Slots :
    (/\ Finished(c)
     /\ db[calls[c].safeId] # <<>>
     /\ \A d \in Slots \ {c} :
          ~(Orchestrating(d) /\ calls[d].safeId = calls[c].safeId)
     /\ \E k \in Keys : Covered(db[calls[c].safeId][1], k))
      => db[calls[c].safeId][1].status = "active"
====
